---------------------------- MODULE Spec2Model ----------------------------
(***************************************************************************)
(* A model of codeq_nlp_api.py: the insertion-ordered attribute record     *)
(* (OrderedClass), the Document / Sentence objects built on it, their      *)
(* conversion to mappings and JSON, and the client that posts a request    *)
(* and maps the JSON answer onto a Document.                               *)
(*                                                                         *)
(* Python values are tagged records [tag, items, chars, n]; the fields a   *)
(* kind of value does not use are empty:                                   *)
(*   None            tag "none"                                            *)
(*   str             tag "str",  chars = the characters                    *)
(*   int / bool      tag "int" / "bool", n = the value (True is 1)         *)
(*   list            tag "list", items = the elements                      *)
(*   dict            tag "dict", items = <<[k, v], ...>> in key order      *)
(*   Document /      tag "Document" / "Sentence", items = the instance     *)
(*   Sentence        __dict__ as <<[k, v], ...>> in key order              *)
(* Both collections.OrderedDict and the built-in dict (Python 3.7 and      *)
(* later) keep keys in insertion order, so one sequence of pairs models    *)
(* both.  A str is a sequence of symbols: a symbol is one character, or a  *)
(* whole name (an attribute, a pipeline stage) that holds neither a comma  *)
(* nor white space and that no operation looks into.                       *)
(***************************************************************************)
EXTENDS Integers, Sequences, FiniteSets, TLC

VARIABLES
    rec,        \* the Ordered Record instance under assignment (SpecRecord)
    assigned,   \* every assignment made on rec since it was created, in order
    raised,     \* the exception the last record operation raised, or "none"
    client,     \* the CodeqClient: user_id, user_key, endpoint
    call,       \* the last operation called and its arguments
    request,    \* the params of the last HTTP POST, or None
    response,   \* the HTTP response the last POST received
    outcome,    \* how the last operation ended: returned, or the exception
    returned,   \* the Document the last operation returned, or None
    parsed,     \* whether the last operation ran json.loads on a response body
    doc_dict,   \* the result of to_dict() on the returned Document, or None
    printed     \* the result of pretty_print(), as JSON tokens

vars == <<rec, assigned, raised, client, call, request, response, outcome,
          returned, parsed, doc_dict, printed>>

recordVars == <<rec, assigned, raised>>
clientVars == <<client, call, request, response, outcome, returned, parsed,
                doc_dict, printed>>

----------------------------------------------------------------------------
(* Bounds of the model *)

\* the most assignments made on one record after it is created
MaxAssign == 3
\* the longest list of sentence strings given to from_list_of_strings
MaxStrings == 3
\* the longest comma-separated pipeline string given to analyze
MaxPipelineLen == 6
\* the most sentence elements in a response payload
MaxSentences == 2
\* the most keys of a JSON object handed to _json_to_class on its own
MaxDataKeys == 2

----------------------------------------------------------------------------
(* Python values *)

Value(tag, items, chars, n) ==
    [tag |-> tag, items |-> items, chars |-> chars, n |-> n]
None == Value("none", <<>>, <<>>, 0)
StrVal(chars) == Value("str", <<>>, chars, 0)
Num(n) == Value("int", <<>>, <<>>, n)
Bool(b) == Value("bool", <<>>, <<>>, IF b THEN 1 ELSE 0)
List(elems) == Value("list", elems, <<>>, 0)
Dict(pairs) == Value("dict", pairs, <<>>, 0)
\* an instance of cls whose __dict__ is d
Instance(cls, d) == Value(cls, d, <<>>, 0)
Pair(key, value) == [k |-> key, v |-> value]

IsNone(v) == v.tag = "none"
\* value == [] / value == {} : an empty list, an empty dict or OrderedDict
IsEmptyList(v) == v.tag = "list" /\ Len(v.items) = 0
IsEmptyDict(v) == v.tag = "dict" /\ Len(v.items) = 0

Range(s) == {s[i] : i \in 1..Len(s)}
Keys(d) == [i \in 1..Len(d) |-> d[i].k]
HasKey(d, key) == \E i \in 1..Len(d) : d[i].k = key
\* d[key], for a key of d
Get(d, key) == d[CHOOSE i \in 1..Len(d) : d[i].k = key].v

\* (a faulty store: an assigned key always moves to the end)
DictSetMoveToEnd(d, key, value) ==
    Append(SelectSeq(d, LAMBDA p : p.k # key), Pair(key, value))

\* d[key] = value on a dict or OrderedDict: a new key goes to the end, a key
\* already there keeps its place and takes the value
DictSet(d, key, value) ==
    IF HasKey(d, key)
    THEN [i \in 1..Len(d) |-> IF d[i].k = key THEN Pair(key, value) ELSE d[i]]
    ELSE Append(d, Pair(key, value))

----------------------------------------------------------------------------
(* OrderedClass *)

\* The names that are data descriptors on the type: object.__setattr__ does
\* not store them in the instance __dict__ but calls the descriptor.
\* Sentence.tagged_sentence is a property with no setter.
ReadOnlyProperty(cls, key) == cls = "Sentence" /\ key = "tagged_sentence"

\* OrderedClass.__setattr__(self, key, value) on an instance of cls whose
\* __dict__ is d: the __dict__ afterwards and the exception raised.
\*   if key != '__dict__': self.__dict__[key] = value
\*   object.__setattr__(self, key, value)
SetAttr(cls, d, key, value) ==
    LET d1 == IF key # "__dict__" THEN DictSet(d, key, value) ELSE d
    IN  CASE ReadOnlyProperty(cls, key) ->
                [dict |-> d1, exc |-> "AttributeError"]
          [] key = "__dict__" /\ value.tag = "dict" ->
                [dict |-> value.items, exc |-> "none"]
          [] key = "__dict__" /\ value.tag # "dict" ->
                [dict |-> d1, exc |-> "TypeError"]
          [] OTHER ->
                [dict |-> DictSet(d1, key, value), exc |-> "none"]

\* A run of assignments self.k = v in order, stopping at the first that
\* raises: the first half of the run, then the second
RECURSIVE SetAttrs(_, _, _)
SetAttrs(cls, d, pairs) ==
    IF Len(pairs) = 0 THEN [dict |-> d, exc |-> "none"]
    ELSE IF Len(pairs) = 1 THEN SetAttr(cls, d, pairs[1].k, pairs[1].v)
    ELSE LET half == Len(pairs) \div 2
             r == SetAttrs(cls, d, SubSeq(pairs, 1, half))
         IN  IF r.exc # "none" THEN r
             ELSE SetAttrs(cls, r.dict, SubSeq(pairs, half + 1, Len(pairs)))

\* OrderedClass.__new__: an instance with an empty OrderedDict as __dict__
OrderedClassNew(cls) == Instance(cls, <<>>)

----------------------------------------------------------------------------
(* Document and Sentence *)

\* Document.__init__(self, raw_text, tokens=None, sentences=None)
DocumentInit(raw_text, tokens, sentences) ==
    << Pair("language", None),
       Pair("language_probability", None),
       Pair("raw_text", raw_text),
       Pair("tokens", tokens),
       Pair("raw_detokens", None),
       Pair("summary", None),
       Pair("summary_detokens", Dict(<<>>)),
       Pair("compressed_summary", None),
       Pair("compressed_summary_detokens", Dict(<<>>)),
       Pair("keyphrases", None),
       Pair("keyphrases_scored", None),
       Pair("errors", List(<<>>)),
       Pair("run_time_stats", Dict(<<>>)),
       Pair("sentences", sentences) >>

Document(raw_text, tokens, sentences) ==
    Instance("Document",
             SetAttrs("Document", OrderedClassNew("Document").items,
                      DocumentInit(raw_text, tokens, sentences)).dict)

SentenceFields ==
    << "position", "paragraph", "tokens", "tokens_filtered", "stems",
       "lemmas", "pos_tags", "dependencies", "semantic_roles", "chunks",
       "chunk_labels", "chunk_tuples", "truecase_sentence",
       "detruecase_sentence", "speech_acts", "speech_act_values",
       "question_types", "question_tags", "named_entities",
       "named_entities_linked", "named_entities_salience", "nes_terms",
       "nes_types", "nes_positions", "emotions", "sarcasm", "sentiments",
       "dates", "is_task", "task_subclassification", "task_actions",
       "coreferences", "compressed_sentence" >>

\* Sentence.__init__(self, raw_sentence)
SentenceInit(raw_sentence) ==
    <<Pair("raw_sentence", raw_sentence)>> \o
    [i \in 1..Len(SentenceFields) |-> Pair(SentenceFields[i], None)]

Sentence(raw_sentence) ==
    Instance("Sentence",
             SetAttrs("Sentence", OrderedClassNew("Sentence").items,
                      SentenceInit(raw_sentence)).dict)

\* CodeqClient._json_to_class(cls, data): object.__new__(cls), which leaves
\* the instance with a built-in dict as __dict__ and runs no __init__, then
\* setattr(instance, key, value) for each item of data.  data.items() on
\* anything but a dict raises AttributeError.
json_to_class(cls, data) ==
    IF data.tag # "dict"
    THEN [exc |-> "AttributeError", instance |-> None]
    ELSE LET r == SetAttrs(cls, <<>>, data.items)
         IN  IF r.exc # "none"
             THEN [exc |-> r.exc, instance |-> None]
             ELSE [exc |-> "none", instance |-> Instance(cls, r.dict)]

----------------------------------------------------------------------------
(* Document.from_list_of_strings *)

\* (a faulty join: the separator is left out)
RECURSIVE JoinNoSeparator(_, _)
JoinNoSeparator(sep, strings) ==
    IF Len(strings) = 0 THEN <<>>
    ELSE strings[1] \o JoinNoSeparator(sep, Tail(strings))

\* sep.join(strings)
RECURSIVE Join(_, _)
Join(sep, strings) ==
    IF Len(strings) = 0 THEN <<>>
    ELSE IF Len(strings) = 1 THEN strings[1]
    ELSE strings[1] \o sep \o Join(sep, Tail(strings))

\* (a faulty index: counted from 1)
EnumerateFromOne(i) == i

\* the idx that enumerate() gives the i-th element (i counted from 1)
EnumerateIndex(i) == i - 1

\* sentence = Sentence(raw_sentence=raw_sentence); sentence.position = idx
SentenceAt(raw_sentence, idx) ==
    LET s == Sentence(StrVal(raw_sentence))
    IN  [s EXCEPT !.items =
             SetAttr("Sentence", s.items, "position", Num(idx)).dict]

from_list_of_strings(list_of_strings) ==
    LET sentences ==
            [i \in 1..Len(list_of_strings) |->
                SentenceAt(list_of_strings[i], EnumerateIndex(i))]
        document == Document(StrVal(Join(<<"\n">>, list_of_strings)),
                             None, None)
    IN  [document EXCEPT !.items =
             SetAttr("Document", document.items, "sentences",
                     List(sentences)).dict]

----------------------------------------------------------------------------
(* to_dict *)

\* Sentence.to_dict keeps:  value is not None
SentenceKeeps(value) == ~IsNone(value)

\* (a faulty filter: only None is dropped)
DocumentKeepsNotNone(value) == ~IsNone(value)

\* Document.to_dict keeps:  value is not None and value != {} and value != []
DocumentKeeps(value) ==
    ~IsNone(value) /\ ~IsEmptyDict(value) /\ ~IsEmptyList(value)

\* Sentence.to_dict(self)
SentenceToDict(sentence) ==
    Dict(SelectSeq(sentence.items, LAMBDA p : SentenceKeeps(p.v)))

\* Document.to_dict(self)
DocumentToDict(document) ==
    LET kept == SelectSeq(document.items, LAMBDA p : DocumentKeeps(p.v))
    IN  Dict([i \in 1..Len(kept) |->
                IF kept[i].k = "sentences"
                THEN Pair("sentences",
                          List([j \in 1..Len(kept[i].v.items) |->
                                   SentenceToDict(kept[i].v.items[j])]))
                ELSE kept[i]])

----------------------------------------------------------------------------
(* json.dumps and json.loads, on the tokens of the JSON text (the white    *)
(* space between tokens, which indent=2 adds, carries nothing).  A string  *)
(* token holds its characters; an attribute name is a single symbol.       *)

Tok(type) == [t |-> type, s |-> <<>>, n |-> 0]
StringTok(chars) == [t |-> "string", s |-> chars, n |-> 0]
NumberTok(n) == [t |-> "number", s |-> <<>>, n |-> n]

RECURSIVE Dumps(_), DumpsElems(_), DumpsMembers(_)
Dumps(v) ==
    CASE v.tag = "none" -> <<Tok("null")>>
      [] v.tag = "str" -> <<StringTok(v.chars)>>
      [] v.tag = "int" -> <<NumberTok(v.n)>>
      [] v.tag = "bool" -> <<Tok(IF v.n = 1 THEN "true" ELSE "false")>>
      [] v.tag = "list" -> <<Tok("[")>> \o DumpsElems(v.items) \o <<Tok("]")>>
      [] v.tag = "dict" -> <<Tok("{")>> \o DumpsMembers(v.items) \o <<Tok("}")>>

DumpsElems(elems) ==
    IF Len(elems) = 0 THEN <<>>
    ELSE IF Len(elems) = 1 THEN Dumps(elems[1])
    ELSE Dumps(elems[1]) \o <<Tok(",")>> \o DumpsElems(Tail(elems))

DumpsMembers(pairs) ==
    LET member == <<StringTok(<<pairs[1].k>>), Tok(":")>> \o Dumps(pairs[1].v)
    IN  IF Len(pairs) = 0 THEN <<>>
        ELSE IF Len(pairs) = 1 THEN member
        ELSE member \o <<Tok(",")>> \o DumpsMembers(Tail(pairs))

Fail == [ok |-> FALSE, v |-> None, next |-> 0]
TypeAt(toks, i) == IF i \in 1..Len(toks) THEN toks[i].t ELSE "eof"

\* The JSON value that starts at token i, and the index after it.  With
\* object_pairs_hook=OrderedDict an object's pairs go into an OrderedDict
\* one by one, so a repeated key keeps its first place and its last value.
RECURSIVE ParseValue(_, _), ParseElems(_, _, _), ParseMembers(_, _, _)
ParseValue(toks, i) ==
    LET ty == TypeAt(toks, i)
    IN  CASE ty = "null" -> [ok |-> TRUE, v |-> None, next |-> i + 1]
          [] ty = "string" ->
                [ok |-> TRUE, v |-> StrVal(toks[i].s), next |-> i + 1]
          [] ty = "number" ->
                [ok |-> TRUE, v |-> Num(toks[i].n), next |-> i + 1]
          [] ty \in {"true", "false"} ->
                [ok |-> TRUE, v |-> Bool(ty = "true"), next |-> i + 1]
          [] ty = "[" ->
                IF TypeAt(toks, i + 1) = "]"
                THEN [ok |-> TRUE, v |-> List(<<>>), next |-> i + 2]
                ELSE ParseElems(toks, i + 1, <<>>)
          [] ty = "{" ->
                IF TypeAt(toks, i + 1) = "}"
                THEN [ok |-> TRUE, v |-> Dict(<<>>), next |-> i + 2]
                ELSE ParseMembers(toks, i + 1, <<>>)
          [] OTHER -> Fail

ParseElems(toks, i, acc) ==
    LET r == ParseValue(toks, i)
    IN  IF ~r.ok THEN Fail
        ELSE CASE TypeAt(toks, r.next) = "," ->
                     ParseElems(toks, r.next + 1, Append(acc, r.v))
               [] TypeAt(toks, r.next) = "]" ->
                     [ok |-> TRUE, v |-> List(Append(acc, r.v)),
                      next |-> r.next + 1]
               [] OTHER -> Fail

ParseMembers(toks, i, acc) ==
    IF ~(TypeAt(toks, i) = "string" /\ Len(toks[i].s) = 1
         /\ TypeAt(toks, i + 1) = ":")
    THEN Fail
    ELSE LET r == ParseValue(toks, i + 2)
         IN  IF ~r.ok THEN Fail
             ELSE CASE TypeAt(toks, r.next) = "," ->
                          ParseMembers(toks, r.next + 1,
                                       DictSet(acc, toks[i].s[1], r.v))
                    [] TypeAt(toks, r.next) = "}" ->
                          [ok |-> TRUE,
                           v |-> Dict(DictSet(acc, toks[i].s[1], r.v)),
                           next |-> r.next + 1]
                    [] OTHER -> Fail

\* json.loads(text, object_pairs_hook=OrderedDict); JSONDecodeError is a
\* ValueError
Loads(toks) ==
    LET r == ParseValue(toks, 1)
    IN  IF r.ok /\ r.next = Len(toks) + 1
        THEN [exc |-> "none", value |-> r.v]
        ELSE [exc |-> "ValueError", value |-> None]

\* Document.pretty_print(self): json.dumps(self.to_dict(), indent=2)
pretty_print(document) == Dumps(DocumentToDict(document))

----------------------------------------------------------------------------
(* CodeqClient *)

CODEQ_API_ENDPOINT_LAST == "https://api.codeq.com/v1"

\* CodeqClient.__init__(self, user_id, user_key)
CodeqClient(user_id, user_key) ==
    [user_id |-> user_id, user_key |-> user_key,
     endpoint |-> CODEQ_API_ENDPOINT_LAST]

\* The convenience methods, each with the pipeline it passes to
\* __run_request
Convenience ==
    << Pair("language", "language"), Pair("tokenize", "tokenize"),
       Pair("detokenize", "detokenize"), Pair("ssplit", "ssplit"),
       Pair("stopword", "stopword"), Pair("stem", "stem"),
       Pair("truecase", "truecase"), Pair("detruecase", "detruecase"),
       Pair("pos", "pos"), Pair("lemma", "lemma"),
       Pair("speechact", "speechact"), Pair("question", "question"),
       Pair("ner", "ner"), Pair("parse", "parse"),
       Pair("semantic_roles", "semantic_roles"),
       Pair("coreferences", "coreference"), Pair("date", "date"),
       Pair("task", "task"), Pair("sentiment", "sentiment"),
       Pair("emotion", "emotion"), Pair("sarcasm", "sarcasm"),
       Pair("compress", "compress"), Pair("summarize", "summarize"),
       Pair("summarize_compress", "summarize_compress"),
       Pair("chunk", "chunk"), Pair("nel", "nel"),
       Pair("salience", "salience") >>

\* \s in a str pattern
IsSpace(c) == c \in {" ", "\t", "\n", "\r"}

SubStr(s, from, to) == [i \in 1..(to - from + 1) |-> s[from + i - 1]]

\* Where the leftmost match of \s*,\s* at or after `from` starts: the first
\* p from which only white space stands before a comma (0: no match)
MatchStart(s, from) ==
    LET starts == {p \in from..Len(s) :
                     \E c \in p..Len(s) :
                        /\ s[c] = ","
                        /\ \A j \in p..(c - 1) : IsSpace(s[j])}
    IN  IF starts = {} THEN 0
        ELSE CHOOSE p \in starts : \A q \in starts : p <= q

\* The index after the match that starts at p: past the comma and all the
\* white space that follows it
MatchEnd(s, p) ==
    LET c == CHOOSE c \in p..Len(s) :
                 s[c] = "," /\ \A j \in p..(c - 1) : IsSpace(s[j])
        ends == {e \in (c + 1)..(Len(s) + 1) :
                    /\ \A j \in (c + 1)..(e - 1) : IsSpace(s[j])
                    /\ (e = Len(s) + 1 \/ ~IsSpace(s[e]))}
    IN  CHOOSE e \in ends : TRUE

\* re.split(r'\s*,\s*', s), from index `from` on
RECURSIVE ReSplitFrom(_, _)
ReSplitFrom(s, from) ==
    LET p == MatchStart(s, from)
    IN  IF p = 0 THEN <<SubStr(s, from, Len(s))>>
        ELSE <<SubStr(s, from, p - 1)>> \o ReSplitFrom(s, MatchEnd(s, p))

ReSplit(s) == ReSplitFrom(s, 1)

\* analyze: if isinstance(pipeline, str):
\*              pipeline = re.split(r'\s*,\s*', pipeline)
NormalizePipeline(pipeline) ==
    IF pipeline.tag = "str"
    THEN LET names == ReSplit(pipeline.chars)
         IN  List([i \in 1..Len(names) |-> StrVal(names[i])])
    ELSE pipeline

\* str(n) for n >= 0
RECURSIVE Decimal(_)
Decimal(n) ==
    LET digit == <<"0", "1", "2", "3", "4", "5", "6", "7", "8", "9">>
    IN  IF n < 10 THEN <<digit[n + 1]>>
        ELSE Decimal(n \div 10) \o <<digit[(n % 10) + 1]>>

\* "%s; %s" % (request.status_code, request.reason)
ErrorMessage(status_code, reason) ==
    Decimal(status_code) \o <<";", " ">> \o reason

\* (a faulty test: any status below 300 passes)
StatusIsBelow300(status_code) == status_code < 300

\* request.status_code == 200
StatusIsOk(status_code) == status_code = 200

\* [self._json_to_class(cls=Sentence, data=sent_dict) for sent_dict in elems]
RECURSIVE SentencesFromJson(_)
SentencesFromJson(elems) ==
    IF Len(elems) = 0 THEN [exc |-> "none", sentences |-> <<>>]
    ELSE LET r == json_to_class("Sentence", elems[1])
         IN  IF r.exc # "none" THEN [exc |-> r.exc, sentences |-> <<>>]
             ELSE LET rest == SentencesFromJson(Tail(elems))
                  IN  IF rest.exc # "none" THEN rest
                      ELSE [exc |-> "none",
                            sentences |-> <<r.instance>> \o rest.sentences]

\* What `for sent_dict in document.sentences` iterates over: the elements
\* of a list, the keys of a dict, the characters of a str; anything else is
\* not iterable
Iterate(value) ==
    CASE value.tag = "list" -> [exc |-> "none", elems |-> value.items]
      [] value.tag = "dict" ->
            [exc |-> "none",
             elems |-> [i \in 1..Len(value.items) |->
                           StrVal(<<value.items[i].k>>)]]
      [] value.tag = "str" ->
            [exc |-> "none",
             elems |-> [i \in 1..Len(value.chars) |->
                           StrVal(<<value.chars[i]>>)]]
      [] OTHER -> [exc |-> "TypeError", elems |-> <<>>]

\* (a faulty strip: run_time_stats is left as it is)
StripKeepsStats(items, benchmark) == items

\* if not benchmark: document.run_time_stats = None
StripBenchmark(items, benchmark) ==
    IF ~benchmark
    THEN SetAttr("Document", items, "run_time_stats", None).dict
    ELSE items

\* CodeqClient.__document_from_json(self, document_json, benchmark)
document_from_json(document_json, benchmark) ==
    LET made == json_to_class("Document", document_json)
        document == made.instance
        raise(e) == [exc |-> e, document |-> None]
    IN  IF made.exc # "none" THEN raise(made.exc)
        ELSE IF ~HasKey(document.items, "sentences")
        THEN raise("AttributeError")
        ELSE LET it == Iterate(Get(document.items, "sentences"))
                 ss == SentencesFromJson(it.elems)
             IN  IF it.exc # "none" THEN raise(it.exc)
                 ELSE IF ss.exc # "none" THEN raise(ss.exc)
                 ELSE [exc |-> "none",
                       document |->
                         [document EXCEPT !.items =
                            StripBenchmark(
                                SetAttr("Document", document.items,
                                        "sentences",
                                        List(ss.sentences)).dict,
                                benchmark)]]

\* The params of the POST
Params(c, text, pipeline, benchmark) ==
    Dict(<< Pair("user_id", c.user_id),
            Pair("user_key", c.user_key),
            Pair("text", text),
            Pair("pipeline", pipeline),
            Pair("benchmark", Bool(benchmark)) >>)

\* CodeqClient.__run_request(self, text, pipeline, benchmark=False), the
\* POST answered by resp
run_request(c, text, pipeline, benchmark, resp) ==
    LET params == Params(c, text, pipeline, benchmark)
    IN  IF StatusIsOk(resp.status_code)
        THEN LET loaded == Loads(resp.text)
                 made == document_from_json(loaded.value, benchmark)
             IN  IF loaded.exc # "none"
                 THEN [request |-> params, parsed |-> TRUE,
                       outcome |-> [kind |-> loaded.exc, message |-> <<>>],
                       returned |-> None]
                 ELSE IF made.exc # "none"
                 THEN [request |-> params, parsed |-> TRUE,
                       outcome |-> [kind |-> made.exc, message |-> <<>>],
                       returned |-> None]
                 ELSE [request |-> params, parsed |-> TRUE,
                       outcome |-> [kind |-> "returned", message |-> <<>>],
                       returned |-> made.document]
        ELSE [request |-> params, parsed |-> FALSE,
              outcome |-> [kind |-> "CodeqAPIError",
                           message |-> ErrorMessage(resp.status_code,
                                                    resp.reason)],
              returned |-> None]

\* CodeqClient.analyze(self, text, pipeline=None, benchmark=False)
analyze(c, text, pipeline, benchmark, resp) ==
    run_request(c, text, NormalizePipeline(pipeline), benchmark, resp)

\* CodeqClient.tokenize(self, text) and the other convenience methods:
\* self.__run_request(text, pipeline='<stage>')
convenience(c, stage, text, resp) ==
    run_request(c, text, StrVal(<<stage>>), FALSE, resp)

----------------------------------------------------------------------------
(* The Ordered Record under assignment *)

\* a name both constructors assign, a name none does, and Sentence's
\* read-only property
RecordNames == {"tokens", "future_annotation", "tagged_sentence"}
DataNames == RecordNames
RecordValues == {None, StrVal(<<"a">>)}
DataValues == {StrVal(<<"b">>)}

\* The JSON objects handed to _json_to_class: distinct keys in any order
RecordData ==
    {Dict(p) : p \in {q \in UNION {[1..n -> [k : DataNames, v : DataValues]]
                                     : n \in 0..MaxDataKeys} :
                        \A i, j \in 1..Len(q) : q[i].k = q[j].k => i = j}}

\* every assignment made on rec, those of its creation first
Log == assigned.creation \o assigned.later

NewDocument ==
    /\ IsNone(rec)
    /\ \E raw_text \in RecordValues :
          /\ rec' = Document(raw_text, None, None)
          /\ assigned' = [creation |-> DocumentInit(raw_text, None, None),
                          later |-> <<>>]
    /\ raised' = "none"
    /\ UNCHANGED clientVars

NewSentence ==
    /\ IsNone(rec)
    /\ \E raw_sentence \in RecordValues :
          /\ rec' = Sentence(raw_sentence)
          /\ assigned' = [creation |-> SentenceInit(raw_sentence),
                          later |-> <<>>]
    /\ raised' = "none"
    /\ UNCHANGED clientVars

JsonToClass ==
    /\ IsNone(rec)
    /\ \E cls \in {"Document", "Sentence"}, data \in RecordData :
          LET r == json_to_class(cls, data)
          IN  IF r.exc = "none"
              THEN /\ rec' = r.instance
                   /\ assigned' = [creation |-> data.items, later |-> <<>>]
                   /\ raised' = "none"
              ELSE /\ raised' = r.exc
                   /\ UNCHANGED <<rec, assigned>>
    /\ UNCHANGED clientVars

\* rec.key = value.  A raising assignment has still run
\* self.__dict__[key] = value, so it is logged like any other.
Assign ==
    /\ ~IsNone(rec)
    /\ Len(assigned.later) < MaxAssign
    /\ \E key \in RecordNames, value \in RecordValues :
          LET r == SetAttr(rec.tag, rec.items, key, value)
          IN  /\ rec' = [rec EXCEPT !.items = r.dict]
              /\ assigned' = [assigned EXCEPT
                                !.later = Append(@, Pair(key, value))]
              /\ raised' = r.exc
    /\ UNCHANGED clientVars

\* the caller drops the record
DiscardRecord ==
    /\ ~IsNone(rec)
    /\ rec' = None
    /\ assigned' = [creation |-> <<>>, later |-> <<>>]
    /\ raised' = "none"
    /\ UNCHANGED clientVars

InitRecord ==
    /\ rec = None
    /\ assigned = [creation |-> <<>>, later |-> <<>>]
    /\ raised = "none"

NextRecord ==
    NewDocument \/ NewSentence \/ JsonToClass \/ Assign \/ DiscardRecord

----------------------------------------------------------------------------
(* The client's inputs *)

Texts == {StrVal(<<"h", "i">>)}
Credentials == {CodeqClient(StrVal(<<"id1">>), StrVal(<<"key1">>)),
                CodeqClient(StrVal(<<"id2">>), StrVal(<<"key2">>))}

SeqsUpTo(S, n) == UNION {[1..m -> S] : m \in 0..n}
Opt(key, values) == {<<>>} \cup {<<Pair(key, v)>> : v \in values}

\* The elements of a payload's `sentences`
SentenceElems ==
    { Dict(<<Pair("raw_sentence", StrVal(<<"a">>)), Pair("position", Num(0))>>),
      Dict(<<Pair("raw_sentence", StrVal(<<"a">>)), Pair("position", Num(1)),
             Pair("paragraph", None)>>),
      Dict(<<Pair("raw_sentence", StrVal(<<"a">>)), Pair("tokens", List(<<>>)),
             Pair("semantic_roles", Dict(<<>>))>>),
      Dict(<<Pair("raw_sentence", StrVal(<<"a">>)), Pair("position", Num(0)),
             Pair("future_annotation", List(<<Num(1), Num(2), Num(3)>>))>>),
      Dict(<<Pair("raw_sentence", StrVal(<<"a">>)), Pair("position", Num(0)),
             Pair("tagged_sentence", StrVal(<<"a", "/", "DT">>))>>) }

SentencesValues ==
    {List(l) : l \in SeqsUpTo(SentenceElems, MaxSentences)}
        \cup {None, List(<<StrVal(<<"a">>)>>)}

\* The response payloads: each top-level key present or not
Payloads ==
    {Dict(a \o b \o c \o d) :
        a \in Opt("raw_text", {StrVal(<<"a">>)}),
        b \in Opt("sentences", SentencesValues),
        c \in Opt("errors", {List(<<StrVal(<<"e">>)>>)}),
        d \in Opt("run_time_stats", {Dict(<<Pair("tokenize", Num(1))>>)})}

SamplePayload ==
    Dict(<<Pair("raw_text", StrVal(<<"a">>)),
           Pair("sentences", List(<<>>))>>)

Response(status_code, reason, text) ==
    [status_code |-> status_code, reason |-> reason, text |-> text]
NoResponse == Response(0, <<>>, <<>>)

\* Answers that are not 200
Failures ==
    { Response(204, <<"N", "o", " ", "C", "o", "n", "t", "e", "n", "t">>,
               Dumps(SamplePayload)),
      Response(401, <<"U", "n", "a", "u", "t", "h", "o", "r", "i", "z", "e",
                      "d">>, Dumps(SamplePayload)),
      Response(500, <<"I", "n", "t", "e", "r", "n", "a", "l">>,
               <<Tok("{")>>) }

\* 200 answers: every payload, a JSON document that is no object, and a
\* body that is not JSON
Responses ==
    {Response(200, <<"O", "K">>, Dumps(p)) : p \in Payloads}
        \cup {Response(200, <<"O", "K">>, Dumps(List(<<>>))),
              Response(200, <<"O", "K">>, <<Tok("{")>>)}
        \cup Failures

\* A 200 answer with every top-level key and two sentence elements
SomeResponses ==
    {Response(200, <<"O", "K">>, Dumps(p)) :
        p \in {q \in Payloads :
                  /\ Len(q.items) = 4
                  /\ q.items[2].v.tag = "list"
                  /\ Len(q.items[2].v.items) = 2}}

FewResponses ==
    {Response(200, <<"O", "K">>, Dumps(SamplePayload))} \cup Failures

PipelineAlphabet == {"pos", "ner", " ", ","}
PipelineStrings ==
    {StrVal(s) : s \in SeqsUpTo(PipelineAlphabet, MaxPipelineLen)}
PipelineLists ==
    {List(<<>>), List(<<StrVal(<<"pos">>)>>),
     List(<<StrVal(<<"pos">>), StrVal(<<" ", "ner">>)>>)}
SomePipelines ==
    {None, StrVal(<<"pos", ",", " ", "ner", ",", "sentiment">>),
     List(<<StrVal(<<"pos">>)>>)}

SentenceStrings == {<<>>, <<"a">>, <<"b", "c">>}

NoCall == [op |-> "none", text |-> None, pipeline |-> None,
           benchmark |-> FALSE, strings |-> <<>>]

----------------------------------------------------------------------------
(* The client's operations *)

\* One operation at a time: the caller holds no earlier result
Idle == call.op = "none"

Ended(c, r, resp) ==
    /\ call' = c
    /\ request' = r.request
    /\ response' = resp
    /\ outcome' = r.outcome
    /\ returned' = r.returned
    /\ parsed' = r.parsed
    /\ doc_dict' = None
    /\ printed' = <<>>
    /\ UNCHANGED <<client, recordVars>>

\* client.analyze(text, pipeline, benchmark)
AnalyzeWith(pipelines, responses) ==
    /\ Idle
    /\ \E text \in Texts, pipeline \in pipelines, benchmark \in BOOLEAN,
          resp \in responses :
           Ended([op |-> "analyze", text |-> text, pipeline |-> pipeline,
                  benchmark |-> benchmark, strings |-> <<>>],
                 analyze(client, text, pipeline, benchmark, resp), resp)

\* client.tokenize(text), client.pos(text), ...: any of the convenience
\* methods
ConvenienceWith(responses) ==
    /\ Idle
    /\ \E m \in 1..Len(Convenience), text \in Texts, resp \in responses :
           Ended([op |-> Convenience[m].k, text |-> text, pipeline |-> None,
                  benchmark |-> FALSE, strings |-> <<>>],
                 convenience(client, Convenience[m].v, text, resp), resp)

Analyze == AnalyzeWith(SomePipelines, Responses)
Tokenize == ConvenienceWith(FewResponses \cup SomeResponses)

\* Document.from_list_of_strings(list_of_strings)
FromListOfStrings ==
    /\ Idle
    /\ \E strings \in SeqsUpTo(SentenceStrings, MaxStrings) :
           Ended([op |-> "from_list_of_strings", text |-> None,
                  pipeline |-> None, benchmark |-> FALSE,
                  strings |-> strings],
                 [request |-> None, parsed |-> FALSE,
                  outcome |-> [kind |-> "returned", message |-> <<>>],
                  returned |-> from_list_of_strings(strings)],
                 NoResponse)

\* returned.to_dict() and returned.pretty_print()
PrettyPrint ==
    /\ ~IsNone(returned)
    /\ doc_dict' = DocumentToDict(returned)
    /\ printed' = pretty_print(returned)
    /\ UNCHANGED <<client, call, request, response, outcome, returned,
                   parsed, recordVars>>

\* the caller drops the result (or the exception) of the last operation
Discard ==
    /\ call.op # "none"
    /\ call' = NoCall
    /\ request' = None
    /\ response' = NoResponse
    /\ outcome' = [kind |-> "none", message |-> <<>>]
    /\ returned' = None
    /\ parsed' = FALSE
    /\ doc_dict' = None
    /\ printed' = <<>>
    /\ UNCHANGED <<client, recordVars>>

\* the same operations with every pipeline string and a few answers
AnalyzePipeline ==
    AnalyzeWith(PipelineStrings \cup PipelineLists \cup {None}, FewResponses)
TokenizeRequest == ConvenienceWith(FewResponses)

InitClient ==
    /\ client \in Credentials
    /\ call = NoCall
    /\ request = None
    /\ response = NoResponse
    /\ outcome = [kind |-> "none", message |-> <<>>]
    /\ returned = None
    /\ parsed = FALSE
    /\ doc_dict = None
    /\ printed = <<>>

Init == InitRecord /\ InitClient

Next == Analyze \/ Tokenize \/ FromListOfStrings \/ PrettyPrint \/ Discard
NextRequest == AnalyzePipeline \/ TokenizeRequest \/ Discard

Spec == Init /\ [][Next]_vars
SpecRecord == Init /\ [][NextRecord]_vars
SpecRequest == Init /\ [][NextRequest]_vars

----------------------------------------------------------------------------
(* Properties *)

IsRequestOp == call.op \in {"analyze"} \cup Range(Keys(Convenience))
Returned == outcome.kind = "returned" /\ ~IsNone(returned)
\* the payload of the response, as json.loads gives it
Payload == Loads(response.text).value
Field(obj, key) == IF HasKey(obj.items, key) THEN Get(obj.items, key) ELSE None
\* obj carries key exactly as src does: absent when src has none
SameField(obj, src, key) ==
    /\ HasKey(obj.items, key) <=> HasKey(src.items, key)
    /\ HasKey(src.items, key) => Get(obj.items, key) = Get(src.items, key)

\* the n-th smallest member of a set of numbers
Pick(S, n) == CHOOSE i \in S : Cardinality({j \in S : j <= i}) = n

\* the names of a sequence of assignments, each at its first assignment only
FirstAssigned(names) ==
    LET firsts == {i \in 1..Len(names) :
                     \A j \in 1..(i - 1) : names[j] # names[i]}
    IN  [n \in 1..Cardinality(firsts) |-> names[Pick(firsts, n)]]

\* the value the last assignment of key in log gave it
LastAssigned(log, key) ==
    LET at == {i \in 1..Len(log) : log[i].k = key}
    IN  log[CHOOSE i \in at : \A j \in at : j <= i].v

\* C1: the fields of an Ordered Record, however it was created and whatever
\* was assigned on it since, are the assigned names in the order of their
\* first assignment, each with the value of its last assignment.
C1_FirstAssignmentOrder ==
    ~IsNone(rec) =>
        /\ Keys(rec.items) = FirstAssigned(Keys(Log))
        /\ \A i \in 1..Len(rec.items) :
              rec.items[i].v = LastAssigned(Log, rec.items[i].k)

\* a deserialized Document on which a new name was assigned, then another
\* new name, then the first of the two again
C1_Witness ==
    /\ rec.tag = "Document"
    /\ Len(assigned.creation) = 1
    /\ raised = "none"
    /\ Len(assigned.later) = 3
    /\ assigned.later[1].k = assigned.later[3].k
    /\ assigned.later[1].v # assigned.later[3].v
    /\ assigned.later[2].k # assigned.later[1].k
    /\ {assigned.later[1].k, assigned.later[2].k}
          \cap Range(Keys(assigned.creation)) = {}
    /\ Keys(rec.items) = Keys(assigned.creation)
                            \o <<assigned.later[1].k, assigned.later[2].k>>

\* C2 as stated: with the benchmark flag false the Document has neither
\* run_time_stats nor errors set.
Unset(obj, key) ==
    \/ ~HasKey(obj.items, key)
    \/ IsNone(Get(obj.items, key))
    \/ IsEmptyList(Get(obj.items, key))
    \/ IsEmptyDict(Get(obj.items, key))

C3_MissingKeyFails ==
    (/\ IsRequestOp
     /\ response.status_code = 200
     /\ Payload.tag = "dict"
     /\ (~HasKey(Payload.items, "sentences")
            \/ ~HasKey(Payload.items, "raw_text"))) =>
        /\ outcome.kind \notin {"returned", "none"}
        /\ IsNone(returned)

\* the number a str of decimal digits writes
RECURSIVE NumberOf(_)
NumberOf(chars) ==
    LET value(c) == CHOOSE n \in 0..9 : Decimal(n) = <<c>>
    IN  IF Len(chars) = 0 THEN 0
        ELSE 10 * NumberOf(SubSeq(chars, 1, Len(chars) - 1))
                + value(chars[Len(chars)])

\* C4: an answer whose status is not 200 raises a CodeqAPIError whose
\* message reads as the status code, "; ", and the reason phrase; the body
\* is not parsed and no Document is returned.  A Document is returned only
\* on status 200.
C4_Not200Raises ==
    /\ (IsRequestOp /\ response.status_code # 200) =>
          /\ outcome.kind = "CodeqAPIError"
          /\ \E semi \in 1..Len(outcome.message) :
                /\ outcome.message[semi] = ";"
                /\ NumberOf(SubSeq(outcome.message, 1, semi - 1))
                      = response.status_code
                /\ SubSeq(outcome.message, semi, semi + 1) = <<";", " ">>
                /\ SubSeq(outcome.message, semi + 2, Len(outcome.message))
                      = response.reason
          /\ ~parsed
          /\ IsNone(returned)
    /\ (IsRequestOp /\ ~IsNone(returned)) => response.status_code = 200

C4_Witness ==
    /\ IsRequestOp
    /\ response.status_code = 401
    /\ Len(response.reason) > 0
    /\ Loads(response.text).exc = "none"
    /\ outcome.kind = "CodeqAPIError"

\* C5: every key of every sentence element of the payload is on the
\* Sentence of the same index, with the payload's value, and the
\* deserialization does not fail.
C5_EveryKeyStored ==
    (/\ IsRequestOp
     /\ response.status_code = 200
     /\ Payload.tag = "dict"
     /\ HasKey(Payload.items, "sentences")
     /\ Get(Payload.items, "sentences").tag = "list"
     /\ \A e \in Range(Get(Payload.items, "sentences").items) :
           e.tag = "dict") =>
        /\ Returned
        /\ LET elems == Get(Payload.items, "sentences").items
               sentences == Field(returned, "sentences").items
           IN  /\ Len(sentences) = Len(elems)
               /\ \A i \in 1..Len(elems) :
                     \A key \in Range(Keys(elems[i].items)) :
                        /\ HasKey(sentences[i].items, key)
                        /\ Get(sentences[i].items, key)
                              = Get(elems[i].items, key)

\* s.split(','): the runs of s between its commas
RECURSIVE CommaFields(_)
CommaFields(s) ==
    IF \A i \in 1..Len(s) : s[i] # "," THEN <<s>>
    ELSE LET c == CHOOSE i \in 1..Len(s) :
                     s[i] = "," /\ \A j \in 1..(i - 1) : s[j] # ","
         IN  <<SubSeq(s, 1, c - 1)>> \o CommaFields(SubSeq(s, c + 1, Len(s)))

\* s without the white space at its ends
RECURSIVE Trimmed(_)
Trimmed(s) ==
    IF Len(s) = 0 THEN s
    ELSE IF IsSpace(s[1]) THEN Trimmed(Tail(s))
    ELSE IF IsSpace(s[Len(s)]) THEN Trimmed(SubSeq(s, 1, Len(s) - 1))
    ELSE s

\* C6: a pipeline given to analyze as one string is sent as the names
\* between its commas, in order, each without the white space around it
\* (that before the first name and after the last included); any other
\* pipeline is sent as given.
C6_PipelineTrimmed ==
    (call.op = "analyze") =>
        Get(request.items, "pipeline") =
            IF call.pipeline.tag = "str"
            THEN LET fields == CommaFields(call.pipeline.chars)
                 IN  List([i \in 1..Len(fields) |->
                              StrVal(Trimmed(fields[i]))])
            ELSE call.pipeline

\* the length of strings[1..i-1] joined, with a separator after each
RECURSIVE Before(_, _)
Before(strings, i) ==
    IF i <= 1 THEN 0
    ELSE Before(strings, i - 1) + Len(strings[i - 1]) + 1

\* C7: from_list_of_strings(s) returns a Document whose raw_text holds the
\* strings in order with one newline between neighbours and nothing else,
\* and whose sentences are Len(s) Sentences, the i-th with raw_sentence
\* s[i] and position i (counted from 0).
C7_FromListOfStrings ==
    (call.op = "from_list_of_strings") =>
        LET s == call.strings
            text == Field(returned, "raw_text")
            sentences == Field(returned, "sentences")
        IN  /\ Returned
            /\ returned.tag = "Document"
            /\ text.tag = "str"
            /\ Len(text.chars) =
                  IF Len(s) = 0 THEN 0 ELSE Before(s, Len(s) + 1) - 1
            /\ \A i \in 1..Len(s) :
                  /\ SubSeq(text.chars, Before(s, i) + 1,
                            Before(s, i) + Len(s[i])) = s[i]
                  /\ i > 1 => text.chars[Before(s, i)] = "\n"
            /\ sentences.tag = "list"
            /\ Len(sentences.items) = Len(s)
            /\ \A i \in 1..Len(s) :
                  /\ sentences.items[i].tag = "Sentence"
                  /\ Field(sentences.items[i], "raw_sentence") = StrVal(s[i])
                  /\ Field(sentences.items[i], "position") = Num(i - 1)

C7_Witness ==
    /\ call.op = "from_list_of_strings"
    /\ Len(call.strings) = 3
    /\ call.strings[1] # call.strings[2]
    /\ Len(call.strings[3]) = 0
    /\ Len(Field(returned, "sentences").items) = 3

PositionsAreIndexes(document) ==
    HasKey(document.items, "sentences") =>
        \A i \in 1..Len(Get(document.items, "sentences").items) :
            Field(Get(document.items, "sentences").items[i], "position")
                = Num(i - 1)

Keeps(rule, v) ==
    IF rule = "present"
    THEN v.tag # "none" /\ v # List(<<>>) /\ v # Dict(<<>>)
    ELSE v.tag # "none"

\* the names of the pairs whose value the rule keeps, in order
KeptKeys(pairs, rule) ==
    LET kept == {i \in 1..Len(pairs) : Keeps(rule, pairs[i].v)}
    IN  [n \in 1..Cardinality(kept) |-> pairs[Pick(kept, n)].k]

\* what C9 says of the Document's mapping and of the round trip, with
\* `rule` the rule that filters a Sentence's fields
MappingIsFiltered(rule) ==
    ~IsNone(doc_dict) =>
        LET sentences == Field(returned, "sentences").items
            mappings == Field(doc_dict, "sentences").items
            back == Loads(printed)
        IN  /\ Keys(doc_dict.items) = KeptKeys(returned.items, "present")
            /\ Len(mappings) = Len(sentences)
            /\ \A i \in 1..Len(sentences) :
                  /\ Keys(mappings[i].items)
                        = KeptKeys(sentences[i].items, rule)
                  /\ \A p \in Range(mappings[i].items) :
                        p.v = Get(sentences[i].items, p.k)
            /\ \A p \in Range(doc_dict.items) :
                  p.k # "sentences" => p.v = Get(returned.items, p.k)
            /\ back.exc = "none"
            /\ Keys(back.value.items) = Keys(doc_dict.items)
            /\ LET parsed_back == Field(back.value, "sentences").items
               IN  /\ Len(parsed_back) = Len(mappings)
                   /\ \A i \in 1..Len(mappings) :
                         Keys(parsed_back[i].items) = Keys(mappings[i].items)

C10_ConvenienceIsAnalyze ==
    (call.op \in Range(Keys(Convenience))) =>
        /\ request =
              analyze(client, call.text,
                      StrVal(<<Get(Convenience, call.op)>>), FALSE,
                      response).request
        /\ Get(request.items, "pipeline").tag \in {"list", "none"}

============================================================================
